---- MODULE Spec2Model ----
(***************************************************************************)
(* Model of accounts/views.py: the register, deposit, withdraw and         *)
(* transfer request handlers running concurrently against one relational   *)
(* store.  Every statement of a handler that reads or writes the store is  *)
(* one step; statements that only touch the handler's in-memory objects    *)
(* are folded into the store step that precedes them.  Outside             *)
(* transaction.atomic() each save()/create() commits on its own            *)
(* (autocommit); inside it the writes take row locks and become visible    *)
(* together at commit.                                                     *)
(***************************************************************************)
EXTENDS Integers, Sequences, FiniteSets

\* ------------------------------------------------------------------ bounds
MaxAmount == 2
MaxRequests == 2

Procs == {1, 2}
Names == {"alice", "bob", "carol"}
Amounts == (-1)..MaxAmount
NoProc == 0

VARIABLES
    users,      \* rows of auth_user (usernames)
    accounts,   \* usernames that own a BankAccount row
    balance,    \* BankAccount.balance as committed in the store
    log,        \* per account: its Transaction rows in creation order
    lock,       \* row lock on a BankAccount row: the request holding it
    pc,         \* position of each request handler
    req,        \* the request a handler is serving (or served last)
    acct,       \* account.balance / sender_account.balance held in memory
    rcpt,       \* recipient_account.balance held in memory
    result,     \* the response of the request served last
    listed,     \* the records a history request returned
    started     \* number of requests received so far

vars == <<users, accounts, balance, log, lock, pc, req, acct, rcpt, result, listed, started>>

store == <<users, accounts, balance, log, lock>>

NoReq == [op |-> "none", user |-> "alice", amount |-> 0, recipient |-> "alice"]

Record(type, amount, party) == [type |-> type, amount |-> amount, party |-> party]

\* serializer.is_valid(raise_exception=True) on the amount field
ValidAmount(a) == a > 0

\* ---------------------------------------------------------------- helpers
\* what stays of a request once it is answered: its kind
Served(op) == [NoReq EXCEPT !.op = op]

\* the handler returns a Response (or raises): its in-memory objects are gone
Reply(p, r, rows) ==
    /\ pc' = [pc EXCEPT ![p] = "idle"]
    /\ result' = [result EXCEPT ![p] = r]
    /\ listed' = [listed EXCEPT ![p] = rows]
    /\ req' = [req EXCEPT ![p] = Served(req[p].op)]
    /\ acct' = [acct EXCEPT ![p] = 0]
    /\ rcpt' = [rcpt EXCEPT ![p] = 0]

Respond(p, r) == Reply(p, r, <<>>)

Goto(p, l) ==
    /\ pc' = [pc EXCEPT ![p] = l]
    /\ UNCHANGED <<result, listed, req>>

\* a request arrives and is served by the first idle worker
Receive(p) ==
    /\ pc[p] = "idle"
    /\ \A q \in Procs : q < p => pc[q] # "idle"
    /\ started < MaxRequests
    /\ started' = started + 1

\* the request passes validation and the handler goes on: no response yet
Enter(p, r, l) ==
    /\ pc' = [pc EXCEPT ![p] = l]
    /\ req' = [req EXCEPT ![p] = r]
    /\ result' = [result EXCEPT ![p] = "none"]
    /\ listed' = [listed EXCEPT ![p] = <<>>]
    /\ UNCHANGED <<acct, rcpt>>

\* validation refuses the request before the handler touches the store
Reject(p, r, e) ==
    /\ req' = [req EXCEPT ![p] = Served(r.op)]
    /\ result' = [result EXCEPT ![p] = e]
    /\ listed' = [listed EXCEPT ![p] = <<>>]
    /\ UNCHANGED <<pc, acct, rcpt>>

Request(op, u, a, r) == [op |-> op, user |-> u, amount |-> a, recipient |-> r]

\* ---------------------------------------------------------------- register
RegisterStart(p, name) ==
    /\ Receive(p)
    /\ IF name \in users
       THEN Reject(p, Request("register", name, 0, name), "DuplicateAccount")
       ELSE Enter(p, Request("register", name, 0, name), "reg_save")
    /\ UNCHANGED store

RegisterSave(p) ==
    /\ pc[p] = "reg_save"
    /\ IF req[p].user \in users
       THEN Respond(p, "ServerError") /\ UNCHANGED users
       ELSE /\ users' = users \cup {req[p].user}
            /\ Goto(p, "reg_acct")
            /\ UNCHANGED <<acct, rcpt>>
    /\ UNCHANGED <<accounts, balance, log, lock, started>>

RegisterAccount(p) ==
    /\ pc[p] = "reg_acct"
    /\ accounts' = accounts \cup {req[p].user}
    /\ balance' = [balance EXCEPT ![req[p].user] = 0]
    /\ Respond(p, "ok")
    /\ UNCHANGED <<users, log, lock, started>>

\* ----------------------------------------------------------------- deposit
\* the handler without serializer.is_valid
DepositStartNoValidation(p, u, a) ==
    /\ u \in users
    /\ Receive(p)
    /\ Enter(p, Request("deposit", u, a, u), "dep_load")
    /\ UNCHANGED store

DepositStart(p, u, a) ==
    /\ u \in users
    /\ Receive(p)
    /\ IF ValidAmount(a)
       THEN Enter(p, Request("deposit", u, a, u), "dep_load")
       ELSE Reject(p, Request("deposit", u, a, u), "ValidationError")
    /\ UNCHANGED store

DepositLoad(p) ==
    /\ pc[p] = "dep_load"
    /\ IF req[p].user \in accounts
       THEN /\ acct' = [acct EXCEPT ![p] = balance[req[p].user]]
            /\ Goto(p, "dep_save")
            /\ UNCHANGED rcpt
       ELSE Respond(p, "ServerError")
    /\ UNCHANGED <<store, started>>

\* an update without its filter: every row takes the new balance
DepositSaveAllRows(p) ==
    /\ pc[p] = "dep_save"
    /\ lock[req[p].user] = NoProc
    /\ acct' = [acct EXCEPT ![p] = acct[p] + req[p].amount]
    /\ balance' = [n \in Names |-> IF n \in accounts THEN acct'[p] ELSE balance[n]]
    /\ Goto(p, "dep_log")
    /\ UNCHANGED <<users, accounts, log, lock, rcpt, started>>

DepositSave(p) ==
    /\ pc[p] = "dep_save"
    /\ lock[req[p].user] = NoProc
    /\ acct' = [acct EXCEPT ![p] = acct[p] + req[p].amount]
    /\ balance' = [balance EXCEPT ![req[p].user] = acct'[p]]
    /\ Goto(p, "dep_log")
    /\ UNCHANGED <<users, accounts, log, lock, rcpt, started>>

\* the record replaces the account's earlier records
DepositLogOverwrite(p) ==
    /\ pc[p] = "dep_log"
    /\ log' = [log EXCEPT ![req[p].user] =
                  <<Record("DEPOSIT", req[p].amount, req[p].user)>>]
    /\ Respond(p, "ok")
    /\ UNCHANGED <<users, accounts, balance, lock, started>>

DepositLog(p) ==
    /\ pc[p] = "dep_log"
    /\ log' = [log EXCEPT ![req[p].user] =
                  Append(@, Record("DEPOSIT", req[p].amount, req[p].user))]
    /\ Respond(p, "ok")
    /\ UNCHANGED <<users, accounts, balance, lock, started>>

\* ---------------------------------------------------------------- withdraw
WithdrawStart(p, u, a) ==
    /\ u \in users
    /\ Receive(p)
    /\ IF ValidAmount(a)
       THEN Enter(p, Request("withdraw", u, a, u), "wd_load")
       ELSE Reject(p, Request("withdraw", u, a, u), "ValidationError")
    /\ UNCHANGED store

\* the comparison lets through an amount one above the balance
InsufficientFundsOffByOne(bal, amount) == bal + 1 < amount

\* account.balance < amount, on the object the handler loaded
InsufficientFunds(bal, amount) == bal < amount

WithdrawLoad(p) ==
    /\ pc[p] = "wd_load"
    /\ IF req[p].user \notin accounts
       THEN Respond(p, "ServerError")
       ELSE IF InsufficientFunds(balance[req[p].user], req[p].amount)
       THEN Respond(p, "InsufficientFunds")
       ELSE /\ acct' = [acct EXCEPT ![p] = balance[req[p].user]]
            /\ Goto(p, "wd_save")
            /\ UNCHANGED rcpt
    /\ UNCHANGED <<store, started>>

WithdrawSave(p) ==
    /\ pc[p] = "wd_save"
    /\ lock[req[p].user] = NoProc
    /\ acct' = [acct EXCEPT ![p] = acct[p] - req[p].amount]
    /\ balance' = [balance EXCEPT ![req[p].user] = acct'[p]]
    /\ Goto(p, "wd_log")
    /\ UNCHANGED <<users, accounts, log, lock, rcpt, started>>

WithdrawLog(p) ==
    /\ pc[p] = "wd_log"
    /\ log' = [log EXCEPT ![req[p].user] =
                  Append(@, Record("WITHDRAWAL", req[p].amount, req[p].user))]
    /\ Respond(p, "ok")
    /\ UNCHANGED <<users, accounts, balance, lock, started>>

\* Transaction.objects.create() raises (the store refuses the insert): the
\* handler dies with the balance already saved, nothing rolls it back
LogFails(p) ==
    /\ pc[p] \in {"dep_log", "wd_log"}
    /\ Respond(p, "ServerError")
    /\ UNCHANGED <<store, started>>

\* ---------------------------------------------------------------- transfer
TransferStart(p, u, r, a) ==
    /\ u \in users
    /\ Receive(p)
    /\ IF ValidAmount(a)
       THEN Enter(p, Request("transfer", u, a, r), "tr_load")
       ELSE Reject(p, Request("transfer", u, a, r), "ValidationError")
    /\ UNCHANGED store

\* the sender == recipient test is missing
TransferLoadSenderNoSelfCheck(p) ==
    /\ pc[p] = "tr_load"
    /\ IF req[p].user \notin accounts
       THEN Respond(p, "ServerError")
       ELSE /\ acct' = [acct EXCEPT ![p] = balance[req[p].user]]
            /\ Goto(p, "tr_lookup")
            /\ UNCHANGED rcpt
    /\ UNCHANGED <<store, started>>

TransferLoadSender(p) ==
    /\ pc[p] = "tr_load"
    /\ IF req[p].user \notin accounts
       THEN Respond(p, "ServerError")
       ELSE IF req[p].user = req[p].recipient
       THEN Respond(p, "SelfTransfer")
       ELSE /\ acct' = [acct EXCEPT ![p] = balance[req[p].user]]
            /\ Goto(p, "tr_lookup")
            /\ UNCHANGED rcpt
    /\ UNCHANGED <<store, started>>

\* the funds test comes before the recipient lookup
TransferLookupFundsFirst(p) ==
    /\ pc[p] = "tr_lookup"
    /\ IF InsufficientFunds(acct[p], req[p].amount)
       THEN Respond(p, "InsufficientFunds")
       ELSE IF req[p].recipient \notin users
       THEN Respond(p, "RecipientNotFound")
       ELSE Goto(p, "tr_rcpt") /\ UNCHANGED <<acct, rcpt>>
    /\ UNCHANGED <<store, started>>

TransferLookup(p) ==
    /\ pc[p] = "tr_lookup"
    /\ IF req[p].recipient \notin users
       THEN Respond(p, "RecipientNotFound")
       ELSE IF InsufficientFunds(acct[p], req[p].amount)
       THEN Respond(p, "InsufficientFunds")
       ELSE Goto(p, "tr_rcpt") /\ UNCHANGED <<acct, rcpt>>
    /\ UNCHANGED <<store, started>>

TransferLoadRecipient(p) ==
    /\ pc[p] = "tr_rcpt"
    /\ IF req[p].recipient \notin accounts
       THEN Respond(p, "ServerError")
       ELSE /\ rcpt' = [rcpt EXCEPT ![p] = balance[req[p].recipient]]
            /\ Goto(p, "tr_debit")
            /\ UNCHANGED acct
    /\ UNCHANGED <<store, started>>

\* inside transaction.atomic(): save() updates the row under a row lock that
\* is held until commit; other requests keep reading the committed value
TransferDebit(p) ==
    /\ pc[p] = "tr_debit"
    /\ lock[req[p].user] = NoProc
    /\ lock' = [lock EXCEPT ![req[p].user] = p]
    /\ acct' = [acct EXCEPT ![p] = acct[p] - req[p].amount]
    /\ Goto(p, "tr_credit")
    /\ UNCHANGED <<users, accounts, balance, log, rcpt, started>>

TransferCredit(p) ==
    /\ pc[p] = "tr_credit"
    /\ lock[req[p].recipient] \in {NoProc, p}
    /\ lock' = [lock EXCEPT ![req[p].recipient] = p]
    /\ rcpt' = [rcpt EXCEPT ![p] = rcpt[p] + req[p].amount]
    /\ Goto(p, "tr_commit")
    /\ UNCHANGED <<users, accounts, balance, log, acct, started>>

Release(p) == [n \in Names |-> IF lock[n] = p THEN NoProc ELSE lock[n]]

\* the two inserts and the commit at the end of the atomic block
TransferCommit(p) ==
    /\ pc[p] = "tr_commit"
    /\ balance' = [balance EXCEPT ![req[p].user] = acct[p],
                                  ![req[p].recipient] = rcpt[p]]
    /\ log' = [log EXCEPT
                  ![req[p].user] =
                      Append(@, Record("TRANSFER_OUT", req[p].amount, req[p].recipient)),
                  ![req[p].recipient] =
                      Append(@, Record("TRANSFER_IN", req[p].amount, req[p].user))]
    /\ lock' = Release(p)
    /\ Respond(p, "ok")
    /\ UNCHANGED <<users, accounts, started>>

\* the request whose row lock p is waiting for, NoProc if p is not waiting
WaitsFor(p) ==
    IF pc[p] = "tr_credit" /\ lock[req[p].recipient] \notin {NoProc, p}
    THEN lock[req[p].recipient]
    ELSE NoProc

RECURSIVE WaitChain(_, _, _)
WaitChain(p, q, n) ==
    /\ n > 0
    /\ WaitsFor(p) # NoProc
    /\ \/ WaitsFor(p) = q
       \/ WaitChain(WaitsFor(p), q, n - 1)

\* no atomic block: the sender's save and its record stay when the handler dies
DeadlockAbortNoRollback(p) ==
    /\ pc[p] = "tr_credit"
    /\ WaitChain(p, p, Cardinality(Procs))
    /\ balance' = [balance EXCEPT ![req[p].user] = acct[p]]
    /\ log' = [log EXCEPT ![req[p].user] =
                  Append(@, Record("TRANSFER_OUT", req[p].amount, req[p].recipient))]
    /\ lock' = Release(p)
    /\ Respond(p, "ServerError")
    /\ UNCHANGED <<users, accounts, started>>

\* the store finds a cycle of lock waits and aborts one transaction of it:
\* the exception leaves the atomic block, which rolls back
DeadlockAbort(p) ==
    /\ pc[p] = "tr_credit"
    /\ WaitChain(p, p, Cardinality(Procs))
    /\ lock' = Release(p)
    /\ Respond(p, "ServerError")
    /\ UNCHANGED <<users, accounts, balance, log, started>>

\* ----------------------------------------------------------------- history
\* the rows of the transactions table, each with its account and its place in
\* the order of created_at
Transactions ==
    UNION {{[account |-> n, created |-> i, row |-> log[n][i]] : i \in 1..Len(log[n])} :
              n \in Names}

\* order_by("created_at"): oldest first
ListTransactionsAscending(u) ==
    LET rows == {t \in Transactions : t.account = u}
    IN  [i \in 1..Cardinality(rows) |->
            (CHOOSE t \in rows :
                Cardinality({x \in rows : x.created < t.created}) = i - 1).row]

\* Transaction.objects.filter(account=...).order_by("-created_at")
ListTransactions(u) ==
    LET rows == {t \in Transactions : t.account = u}
    IN  [i \in 1..Cardinality(rows) |->
            (CHOOSE t \in rows :
                Cardinality({x \in rows : x.created > t.created}) = i - 1).row]

HistoryStart(p, u) ==
    /\ u \in users
    /\ Receive(p)
    /\ Enter(p, Request("history", u, 0, u), "hist_get")
    /\ UNCHANGED store

HistoryGet(p) ==
    /\ pc[p] = "hist_get"
    /\ IF req[p].user \in accounts
       THEN Reply(p, "ok", ListTransactions(req[p].user))
       ELSE Respond(p, "ServerError")
    /\ UNCHANGED <<store, started>>

\* the store after alice and bob have registered and each has made at most one
\* deposit (alice's the larger: the two are interchangeable), with no request
\* in flight
Opened(d) ==
    /\ users = {"alice", "bob"}
    /\ accounts = {"alice", "bob"}
    /\ balance = [n \in Names |-> IF n \in DOMAIN d THEN d[n] ELSE 0]
    /\ log = [n \in Names |->
                IF n \in DOMAIN d /\ d[n] > 0
                THEN <<Record("DEPOSIT", d[n], n)>>
                ELSE <<>>]

Init ==
    /\ \E d \in [{"alice", "bob"} -> 0..MaxAmount] : d["alice"] >= d["bob"] /\ Opened(d)
    /\ lock = [n \in Names |-> NoProc]
    /\ pc = [p \in Procs |-> "idle"]
    /\ req = [p \in Procs |-> NoReq]
    /\ acct = [p \in Procs |-> 0]
    /\ rcpt = [p \in Procs |-> 0]
    /\ result = [p \in Procs |-> "none"]
    /\ listed = [p \in Procs |-> <<>>]
    /\ started = 0

Next ==
    \/ \E p \in Procs, n \in Names : RegisterStart(p, n)
    \/ \E p \in Procs : RegisterSave(p)
    \/ \E p \in Procs : RegisterAccount(p)
    \/ \E p \in Procs, u \in Names, a \in Amounts : DepositStart(p, u, a)
    \/ \E p \in Procs : DepositLoad(p)
    \/ \E p \in Procs : DepositSave(p)
    \/ \E p \in Procs : DepositLog(p)
    \/ \E p \in Procs, u \in Names, a \in Amounts : WithdrawStart(p, u, a)
    \/ \E p \in Procs : WithdrawLoad(p)
    \/ \E p \in Procs : WithdrawSave(p)
    \/ \E p \in Procs : WithdrawLog(p)
    \/ \E p \in Procs : LogFails(p)
    \/ \E p \in Procs, u \in Names, r \in Names, a \in Amounts : TransferStart(p, u, r, a)
    \/ \E p \in Procs : TransferLoadSender(p)
    \/ \E p \in Procs : TransferLookup(p)
    \/ \E p \in Procs : TransferLoadRecipient(p)
    \/ \E p \in Procs : TransferDebit(p)
    \/ \E p \in Procs : TransferCredit(p)
    \/ \E p \in Procs : TransferCommit(p)
    \/ \E p \in Procs : DeadlockAbort(p)
    \/ \E p \in Procs, u \in Names : HistoryStart(p, u)
    \/ \E p \in Procs : HistoryGet(p)

Spec == Init /\ [][Next]_vars

\* ------------------------------------------------------------------ ledger
RECURSIVE SumOf(_, _)
SumOf(records, types) ==
    IF records = <<>>
    THEN 0
    ELSE (IF Head(records).type \in types THEN Head(records).amount ELSE 0)
         + SumOf(Tail(records), types)

Credits(n) == SumOf(log[n], {"DEPOSIT", "TRANSFER_IN"})
Debits(n) == SumOf(log[n], {"WITHDRAWAL", "TRANSFER_OUT"})

RECURSIVE CountOf(_, _)
CountOf(records, r) ==
    IF records = <<>>
    THEN 0
    ELSE (IF Head(records) = r THEN 1 ELSE 0) + CountOf(Tail(records), r)

Idle == \A p \in Procs : pc[p] = "idle"

\* worker p takes a step of the handler it is in
Steps(p) == pc[p] # "idle" /\ pc'[p] # pc[p]

TransferPcs == {"tr_load", "tr_lookup", "tr_rcpt", "tr_debit", "tr_credit", "tr_commit"}

\* ------------------------------------------------------------------ claims

\* C1: in every reachable state, whatever the interleaving of register,
\* deposit, withdraw and transfer requests, every account's stored balance
\* is >= 0.
C1_BalanceNonNegative == \A n \in Names : balance[n] >= 0

\* two withdrawals on one account have both passed the funds check and both
\* saved, for more than the account ever received
C1_Witness ==
    \E p, q \in Procs :
        /\ p # q
        /\ pc[p] = "wd_log" /\ pc[q] = "wd_log"
        /\ req[p].user = req[q].user
        /\ req[p].amount + req[q].amount > Credits(req[p].user)

\* C2: for concurrent withdrawals on one account the check and the debit are
\* one atomic unit: the successful withdrawals never total more than the
\* balance that was available, and the final balance is the starting balance
\* minus that total.  After exactly two withdraw requests, one per worker and
\* both answered with success, every account has paid out no more than it
\* received and holds the difference.
C2_WithdrawalsFitBalance ==
    (/\ started = 2
     /\ \A p \in Procs :
            pc[p] = "idle" /\ req[p].op = "withdraw" /\ result[p] = "ok") =>
        \A n \in Names :
            /\ Debits(n) <= Credits(n)
            /\ balance[n] = Credits(n) - Debits(n)

\* C3: the sender-balance check and the debit of a transfer are one atomic
\* unit: from the moment a transfer has passed its funds check until its debit
\* commits, no racing withdrawal or transfer takes the checked funds away, so
\* the sender's stored balance still covers the amount.
C3_SenderFundsHeld ==
    \A p \in Procs :
        pc[p] \in {"tr_rcpt", "tr_debit", "tr_credit", "tr_commit"}
            => balance[req[p].user] >= req[p].amount

\* C4: every successful transfer conserves money: the sender's and the
\* recipient's stored balances sum to the same after the commit as before.
C4_TransferConserves ==
    [][\A p \in Procs :
          (pc[p] = "tr_commit" /\ pc'[p] = "idle") =>
              balance'[req[p].user] + balance'[req[p].recipient]
                  = balance[req[p].user] + balance[req[p].recipient]]_vars

\* C5: a validated deposit of amount a raises the committed balance by
\* exactly a, whatever else runs concurrently on the account.
C5_DepositAdds ==
    [][\A p \in Procs :
          (pc[p] = "dep_save" /\ pc'[p] = "dep_log") =>
              balance'[req[p].user] = balance[req[p].user] + req[p].amount]_vars

\* C6: a transfer's TRANSFER_OUT and TRANSFER_IN records and its two balance
\* writes reach the store in one step or not at all, also when the transfer
\* is aborted part-way; the records pair up with equal amounts.
C6_Paired ==
    \A s \in Names, r \in Names, a \in Amounts :
        CountOf(log[s], Record("TRANSFER_OUT", a, r))
            = CountOf(log[r], Record("TRANSFER_IN", a, s))

C6_AllFour(p) ==
    LET s == req[p].user
        r == req[p].recipient
    IN  /\ log' = [log EXCEPT
                      ![s] = Append(@, Record("TRANSFER_OUT", req[p].amount, r)),
                      ![r] = Append(@, Record("TRANSFER_IN", req[p].amount, s))]
        /\ balance' = [balance EXCEPT ![s] = acct[p], ![r] = rcpt[p]]
        /\ result'[p] = "ok"

C6_TransferAllOrNothing ==
    /\ []C6_Paired
    /\ [][\A p \in Procs :
             (pc[p] \in TransferPcs /\ Steps(p)) =>
                 \/ C6_AllFour(p)
                 \/ result'[p] # "ok" /\ UNCHANGED <<balance, log>>]_vars

\* of two transfers between alice and bob, the only requests so far, one was
\* aborted by the store while it held its debit and the other committed
C6_Witness ==
    \E p, q \in Procs :
        /\ p # q
        /\ started = 2
        /\ req[p].op = "transfer" /\ req[q].op = "transfer"
        /\ pc[p] = "idle" /\ result[p] = "ServerError"
        /\ pc[q] = "idle" /\ result[q] = "ok"

\* C7: for deposit and withdraw the balance write and the record are one
\* atomic unit: no failure after validation leaves a balance change without
\* its record.  With a single request served and nothing in flight, every
\* balance is what its records add up to.
C7_NoOrphans ==
    (started <= 1 /\ Idle) => \A n \in Names : balance[n] = Credits(n) - Debits(n)

\* C8: a withdraw whose amount exceeds the account's balance when the handler
\* reads and checks it returns InsufficientFunds, changes no balance and
\* appends no record.
C8_InsufficientFunds ==
    [][\A p \in Procs :
          (/\ pc[p] = "wd_load" /\ Steps(p)
           /\ req[p].user \in accounts
           /\ balance[req[p].user] < req[p].amount) =>
              /\ pc'[p] = "idle"
              /\ result'[p] = "InsufficientFunds"
              /\ UNCHANGED <<balance, log>>]_vars

\* a withdrawal was refused on an account that holds money
C8_Witness ==
    \E p \in Procs :
        /\ req[p].op = "withdraw"
        /\ pc[p] = "idle"
        /\ result[p] = "InsufficientFunds"
        /\ started = 1
        /\ \A n \in accounts : balance[n] > 0

\* C9: a validated transfer whose recipient is the sender (who owns an
\* account) fails with SelfTransfer whatever the amount and the balance,
\* writes no record and changes no balance.
C9_SelfTransfer ==
    /\ [][\A p \in Procs :
             (/\ pc[p] = "tr_load" /\ Steps(p)
              /\ req[p].user \in accounts
              /\ req[p].user = req[p].recipient) =>
                 /\ pc'[p] = "idle"
                 /\ result'[p] = "SelfTransfer"
                 /\ UNCHANGED <<balance, log>>]_vars
    /\ [](\A p \in Procs :
             (pc[p] \in TransferPcs /\ req[p].user = req[p].recipient) =>
                 pc[p] = "tr_load")

\* a self-transfer was refused although every account could have paid it
C9_Witness ==
    \E p \in Procs :
        /\ req[p].op = "transfer"
        /\ pc[p] = "idle"
        /\ result[p] = "SelfTransfer"
        /\ \A n \in accounts : balance[n] >= MaxAmount

\* C10: transfer reports SelfTransfer before RecipientNotFound and
\* InsufficientFunds, and RecipientNotFound before InsufficientFunds.
C10_Precedence ==
    /\ [][\A p \in Procs :
             /\ (/\ pc[p] = "tr_load" /\ Steps(p)
                 /\ req[p].user \in accounts
                 /\ req[p].user = req[p].recipient
                 /\ balance[req[p].user] < req[p].amount) =>
                    result'[p] = "SelfTransfer"
             /\ (/\ pc[p] = "tr_lookup" /\ Steps(p)
                 /\ req[p].recipient \notin users) =>
                    result'[p] = "RecipientNotFound"]_vars
    /\ [][\A p \in Procs :
             (pc[p] \in TransferPcs /\ Steps(p)) =>
                 /\ result'[p] = "RecipientNotFound" => req[p].user # req[p].recipient
                 /\ result'[p] = "InsufficientFunds" =>
                        /\ req[p].user # req[p].recipient
                        /\ req[p].recipient \in users]_vars

\* a transfer to an unknown recipient was refused as RecipientNotFound when no
\* account held enough for any valid amount
C10_Witness ==
    \E p \in Procs :
        /\ req[p].op = "transfer"
        /\ pc[p] = "idle"
        /\ result[p] = "RecipientNotFound"
        /\ started = 1
        /\ \A n \in accounts : balance[n] = 0

\* C11: a transfer whose recipient cannot be resolved to an account (no
\* identity of that name, or an identity without an account) is answered
\* RecipientNotFound and changes no balance and no record: so answers the
\* step that looks the identity up when there is none, and so answers the
\* step that reads the recipient's account when there is none.
C11_RecipientNotFound ==
    [][\A p \in Procs :
          (/\ Steps(p)
           /\ \/ pc[p] = "tr_lookup" /\ req[p].recipient \notin users
              \/ pc[p] = "tr_rcpt" /\ req[p].recipient \notin accounts) =>
              /\ result'[p] = "RecipientNotFound"
              /\ UNCHANGED <<balance, log>>]_vars

\* C12: two transfers in opposite directions between the same two accounts
\* take the two rows in an order that does not depend on the direction, so
\* neither ever waits for a row held by a transfer that waits for it.
C12_NoDeadlock ==
    \A p \in Procs : ~WaitChain(p, p, Cardinality(Procs))

\* C13: registration creates the identity and its account in one atomic
\* unit: in every observable state each registered identity has its account.
C13_OneAccountPerIdentity == users = accounts

Starting(p) ==
    /\ pc[p] = "idle"
    /\ started' = started + 1
    /\ \A q \in Procs : q < p => pc[q] # "idle"

\* C15: a deposit, withdraw or transfer with a zero or negative amount is
\* answered ValidationError before the store is read or written; every
\* record has an amount > 0 and every balance write applies an amount > 0
\* to the balance the handler loaded.
C15_PositiveAmounts ==
    /\ [](\A n \in Names : \A i \in 1..Len(log[n]) : log[n][i].amount > 0)
    /\ [](\A p \in Procs :
             pc[p] \notin {"idle", "reg_save", "reg_acct", "hist_get"} =>
                 req[p].amount > 0)
    /\ [][\A p \in Procs :
             (/\ Starting(p)
              /\ req'[p].op \in {"deposit", "withdraw", "transfer"}
              /\ pc'[p] = "idle") =>
                 /\ result'[p] = "ValidationError"
                 /\ UNCHANGED store]_vars
    /\ [][\A p \in Procs :
             /\ (pc[p] = "dep_save" /\ Steps(p)) =>
                    balance'[req[p].user] - acct[p] > 0
             /\ (pc[p] = "wd_save" /\ Steps(p)) =>
                    acct[p] - balance'[req[p].user] > 0]_vars

\* a request with a non-positive amount was refused while the store still
\* holds positive records
C15_Witness ==
    \E p \in Procs :
        /\ req[p].op \in {"deposit", "withdraw", "transfer"}
        /\ pc[p] = "idle"
        /\ result[p] = "ValidationError"
        /\ \E n \in Names : Len(log[n]) >= 2

IsPrefix(s, t) == Len(s) <= Len(t) /\ SubSeq(t, 1, Len(s)) = s

Kinds == {"DEPOSIT", "WITHDRAWAL", "TRANSFER_OUT", "TRANSFER_IN"}

\* C16: the transaction log is append-only: every step leaves each account's
\* earlier records in place and unchanged; every record's kind is one of
\* DEPOSIT, WITHDRAWAL, TRANSFER_OUT, TRANSFER_IN; no account is deleted.
C16_AppendOnly ==
    /\ [][/\ \A n \in Names : IsPrefix(log[n], log'[n])
          /\ accounts \subseteq accounts'
          /\ users \subseteq users']_vars
    /\ [](\A n \in Names : \A i \in 1..Len(log[n]) : log[n][i].type \in Kinds)

\* an account holds records of three kinds
C16_Witness ==
    \E n \in Names :
        /\ Len(log[n]) >= 3
        /\ Cardinality({log[n][i].type : i \in 1..Len(log[n])}) >= 3

\* C17: with no request in flight and every request so far answered with
\* success (as many successful answers held as requests started), each
\* account's stored balance is what its records add up to: DEPOSIT and
\* TRANSFER_IN amounts minus WITHDRAWAL and TRANSFER_OUT amounts.
C17_LedgerConsistent ==
    (Idle /\ started = Cardinality({p \in Procs : result[p] = "ok"})) =>
        \A n \in Names : balance[n] = Credits(n) - Debits(n)

\* C18: a deposit or withdraw by X changes no balance but X's and appends
\* to no log but X's, at most one record per step; a transfer changes no
\* balance and no log but the sender's and the recipient's and appends one
\* record to each when it commits.
C18_Frame ==
    [][\A p \in Procs :
          Steps(p) =>
              LET mine == IF req[p].op = "transfer"
                          THEN {req[p].user, req[p].recipient}
                          ELSE {req[p].user}
              IN  /\ \A n \in Names \ mine :
                         balance'[n] = balance[n] /\ log'[n] = log[n]
                  /\ req[p].op \in {"deposit", "withdraw"} =>
                         \/ log'[req[p].user] = log[req[p].user]
                         \/ /\ Len(log'[req[p].user]) = Len(log[req[p].user]) + 1
                            /\ IsPrefix(log[req[p].user], log'[req[p].user])
                  /\ req[p].op = "transfer" =>
                         \/ UNCHANGED <<balance, log>>
                         \/ \A n \in mine :
                                /\ Len(log'[n]) = Len(log[n]) + 1
                                /\ IsPrefix(log[n], log'[n])
                  /\ req[p].op \in {"register", "history"} => UNCHANGED log]_vars

\* a transfer and a request racing it have both succeeded, and the transfer
\* wrote a balance from a stale copy: the ledger no longer adds up
C18_Witness ==
    /\ Idle
    /\ started = Cardinality({p \in Procs : result[p] = "ok"})
    /\ \E p \in Procs : req[p].op = "transfer"
    /\ \E p \in Procs : req[p].op \in {"deposit", "withdraw"}
    /\ \E n \in Names : balance[n] # Credits(n) - Debits(n)

====
